---- MODULE Spec2Model ----
(***************************************************************************)
(* Text-to-PowerPoint generator: the slide-content deriver                 *)
(* (core/llm_handler.py), the presentation renderer (core/generator.py)    *)
(* and the POST /generate-ppt request handler (main.py).                   *)
(*                                                                         *)
(* Python strings are sequences of one-character strings.  Python values   *)
(* (what json.loads returns, what the deriver returns) are tagged records  *)
(* [t |-> tag, v |-> payload].                                             *)
(***************************************************************************)
EXTENDS Integers, Sequences, FiniteSets, TLC

\* ------------------------------------------------------------------------
\* Characters
\* ------------------------------------------------------------------------
NL == "\n"
QT == "\""
TAB == "\t"
CR == "\r"
BULLET == "U+2022"

Digits == {"0", "1", "2", "3", "4", "5", "6", "7", "8", "9"}

Lowers == <<"a", "b", "c", "d", "e", "f", "g", "h", "i", "j", "k", "l", "m",
            "n", "o", "p", "q", "r", "s", "t", "u", "v", "w", "x", "y", "z">>
Uppers == <<"A", "B", "C", "D", "E", "F", "G", "H", "I", "J", "K", "L", "M",
            "N", "O", "P", "Q", "R", "S", "T", "U", "V", "W", "X", "Y", "Z">>

IsLower(c) == \E i \in 1..Len(Lowers) : Lowers[i] = c
IsUpper(c) == \E i \in 1..Len(Uppers) : Uppers[i] = c
IsCased(c) == IsLower(c) \/ IsUpper(c)
ToLower(c) == IF IsUpper(c) THEN Lowers[CHOOSE i \in 1..Len(Uppers) : Uppers[i] = c] ELSE c
ToUpper(c) == IF IsLower(c) THEN Uppers[CHOOSE i \in 1..Len(Lowers) : Lowers[i] = c] ELSE c

\* str.isspace() for the characters of the alphabet
IsSpace(c) == c \in {" ", NL, TAB, CR}
IsDigit(c) == c \in Digits

\* ------------------------------------------------------------------------
\* Python str methods
\* ------------------------------------------------------------------------
\* s[a-1:b]: 1-based inclusive bounds, clamped to the string as Python slices are
Slice(s, a, b) ==
    LET lo == IF a < 1 THEN 1 ELSE a
        hi == IF b > Len(s) THEN Len(s) ELSE b
    IN  IF lo > hi THEN <<>> ELSE SubSeq(s, lo, hi)

\* s.startswith(p)
StartsWith(s, p) == Len(p) <= Len(s) /\ Slice(s, 1, Len(p)) = p
\* s.endswith(p)
EndsWith(s, p) == Len(p) <= Len(s) /\ Slice(s, Len(s) - Len(p) + 1, Len(s)) = p

\* s.lower()
RECURSIVE Lower(_)
Lower(s) == IF s = <<>> THEN <<>> ELSE <<ToLower(Head(s))>> \o Lower(Tail(s))

\* s.title(): a cased character is upper-cased after an uncased one (or at the
\* start) and lower-cased after a cased one
RECURSIVE TitleFrom(_, _)
TitleFrom(s, i) ==
    IF i > Len(s) THEN <<>>
    ELSE <<IF i = 1 \/ ~IsCased(s[i - 1]) THEN ToUpper(s[i]) ELSE ToLower(s[i])>>
         \o TitleFrom(s, i + 1)
Title(s) == TitleFrom(s, 1)

\* first index >= i whose character is not in cs, Len(s)+1 when there is none
SkipChars(s, i, cs) ==
    IF i > Len(s) THEN i
    ELSE CHOOSE j \in i..(Len(s) + 1) :
             /\ (j = Len(s) + 1 \/ s[j] \notin cs)
             /\ \A k \in i..(j - 1) : s[k] \in cs

\* last index <= i whose character is not in cs, 0 when there is none
SkipCharsBack(s, i, cs) ==
    IF i < 1 THEN i
    ELSE CHOOSE j \in 0..i :
             /\ (j = 0 \/ s[j] \notin cs)
             /\ \A k \in (j + 1)..i : s[k] \in cs

\* s.strip(chars)
StripChars(s, cs) ==
    LET a == SkipChars(s, 1, cs)
        b == SkipCharsBack(s, Len(s), cs)
    IN  Slice(s, a, b)

PyWhitespace == {" ", NL, TAB, CR}

\* s.strip()
Strip(s) == StripChars(s, PyWhitespace)

\* index of the first occurrence of sep in s at or after i, 0 when there is none
Find(s, sep, i) ==
    LET last  == Len(s) - Len(sep) + 1
        at(j) == \A k \in 1..Len(sep) : s[j + k - 1] = sep[k]
    IN  IF \E j \in i..last : at(j)
        THEN CHOOSE j \in i..last : at(j) /\ \A k \in i..(j - 1) : ~at(k)
        ELSE 0

\* s.split(sep): the pieces between the occurrences of sep, empty ones kept
RECURSIVE Split(_, _)
Split(s, sep) ==
    LET k == Find(s, sep, 1)
    IN  IF k = 0 THEN <<s>>
        ELSE <<Slice(s, 1, k - 1)>> \o Split(Slice(s, k + Len(sep), Len(s)), sep)

\* len(s.split()): the number of maximal runs of non-whitespace characters
WordCount(s) ==
    Cardinality({i \in 1..Len(s) : ~IsSpace(s[i]) /\ (i = 1 \/ IsSpace(s[i - 1]))})

\* [f(x) for x in xs if p(x)] building blocks
RECURSIVE SelectNonBlankStripped(_)
SelectNonBlankStripped(xs) ==
    IF xs = <<>> THEN <<>>
    ELSE (IF Strip(Head(xs)) # <<>> THEN <<Strip(Head(xs))>> ELSE <<>>)
         \o SelectNonBlankStripped(Tail(xs))

\* xs[:n]
Take(xs, n) == Slice(xs, 1, IF Len(xs) < n THEN Len(xs) ELSE n)

\* ------------------------------------------------------------------------
\* Python values
\* ------------------------------------------------------------------------
PyStr(s)  == [t |-> "str",  v |-> s]
PyList(l) == [t |-> "list", v |-> l]
\* a dict is its items in insertion order: <<key, value>> with key a str
PyDict(d) == [t |-> "dict", v |-> d]
\* a number is kept as its lexeme
PyNum(x)  == [t |-> "num",  v |-> x]
PyBool(b) == [t |-> "bool", v |-> b]
PyNone    == [t |-> "none", v |-> <<>>]

\* d[k] = v on the items of a dict
DictSet(items, k, v) ==
    IF \E i \in 1..Len(items) : items[i][1] = k
    THEN LET n == CHOOSE i \in 1..Len(items) : items[i][1] = k
         IN  Slice(items, 1, n - 1) \o << <<k, v>> >> \o Slice(items, n + 1, Len(items))
    ELSE Append(items, <<k, v>>)

\* k in d
DictHas(d, k) == \E i \in 1..Len(d.v) : d.v[i][1] = k
\* d.get(k, default)
DictGet(d, k, default) ==
    IF DictHas(d, k) THEN d.v[CHOOSE i \in 1..Len(d.v) : d.v[i][1] = k][2] ELSE default

\* the mantissa of a number lexeme is all zeros
NumIsZero(x) ==
    LET e == CHOOSE j \in 1..(Len(x) + 1) :
                 /\ (j = Len(x) + 1 \/ x[j] \in {"e", "E"})
                 /\ \A k \in 1..(j - 1) : x[k] \notin {"e", "E"}
    IN  \A k \in 1..(e - 1) : x[k] \in {"0", "-", "."}

\* bool(x)
Truthy(x) ==
    CASE x.t = "list" -> x.v # <<>>
      [] x.t = "dict" -> x.v # <<>>
      [] x.t = "str"  -> x.v # <<>>
      [] x.t = "num"  -> IF x.v \in {<<"N", "a", "N">>, <<"I", "n", "f">>, <<"-", "I", "n", "f">>}
                         THEN TRUE ELSE ~NumIsZero(x.v)
      [] x.t = "bool" -> x.v
      [] OTHER        -> FALSE

\* ------------------------------------------------------------------------
\* json.loads (json/decoder.py, json/scanner.py of the standard library, as
\* called at llm_handler.py:127 and :130).  A parse step returns
\* [ok, v, i]: whether a value was scanned, the value, the index after it.
\* ------------------------------------------------------------------------
JsonWs == {" ", TAB, NL, CR}

JFail(i) == [ok |-> FALSE, v |-> PyNone, i |-> i]
JOk(v, i) == [ok |-> TRUE, v |-> v, i |-> i]

\* s[i:i+1], the empty string past the end
CharAt(s, i) == IF i >= 1 /\ i <= Len(s) THEN s[i] ELSE ""

\* py_scanstring, strict: s[i] is the character after the opening quote.  The
\* string ends at the next quote; a control character inside it is an error.
\* (The alphabet of the inputs has no backslash.)
ScanString(s, i) ==
    LET j == Find(s, <<QT>>, i)
    IN  IF j = 0 THEN JFail(i)
        ELSE IF \E k \in i..(j - 1) : s[k] \in {NL, TAB, CR} THEN JFail(i)
        ELSE JOk(PyStr(Slice(s, i, j - 1)), j + 1)

\* NUMBER_RE = (-?(?:0|[1-9]\d*))(\.\d+)?([eE][-+]?\d+)? matched at i, group
\* by group.  (0|[1-9]\d*) at a: the index after it, a when it does not match
NumIntEnd(s, a) ==
    IF CharAt(s, a) = "0" THEN a + 1
    ELSE IF CharAt(s, a) \in Digits THEN SkipChars(s, a, Digits)
    ELSE a

\* (\.\d+)? at e
NumFracEnd(s, e) ==
    IF CharAt(s, e) = "." /\ CharAt(s, e + 1) \in Digits
    THEN SkipChars(s, e + 1, Digits)
    ELSE e

\* the index of the first digit an exponent at e would have
NumExpDigits(s, e) ==
    IF CharAt(s, e) \in {"e", "E"}
    THEN (IF CharAt(s, e + 1) \in {"-", "+"} THEN e + 2 ELSE e + 1)
    ELSE e

\* ([eE][-+]?\d+)? at e
NumExpEnd(s, e) ==
    IF NumExpDigits(s, e) > e /\ CharAt(s, NumExpDigits(s, e)) \in Digits
    THEN SkipChars(s, NumExpDigits(s, e), Digits)
    ELSE e

\* the number whose digits start at a (after the sign, if any)
NumEndFrom(s, i, a) ==
    IF NumIntEnd(s, a) = a THEN i ELSE NumExpEnd(s, NumFracEnd(s, NumIntEnd(s, a)))

\* the index after the match of NUMBER_RE at i, i itself when there is no match
ScanNumberEnd(s, i) == NumEndFrom(s, i, IF CharAt(s, i) = "-" THEN i + 1 ELSE i)

\* the constants of scan_once at i: [ok, v, i]
ScanConstant(s, i) ==
    IF Slice(s, i, i + 3) = <<"n", "u", "l", "l">> THEN JOk(PyNone, i + 4)
    ELSE IF Slice(s, i, i + 3) = <<"t", "r", "u", "e">> THEN JOk(PyBool(TRUE), i + 4)
    ELSE IF Slice(s, i, i + 4) = <<"f", "a", "l", "s", "e">> THEN JOk(PyBool(FALSE), i + 5)
    ELSE JFail(i)

\* the non-finite numbers of scan_once at i
ScanNonFinite(s, i) ==
    IF Slice(s, i, i + 2) = <<"N", "a", "N">> THEN JOk(PyNum(<<"N", "a", "N">>), i + 3)
    ELSE IF Slice(s, i, i + 7) = <<"I", "n", "f", "i", "n", "i", "t", "y">>
         THEN JOk(PyNum(<<"I", "n", "f">>), i + 8)
    ELSE IF Slice(s, i, i + 8) = <<"-", "I", "n", "f", "i", "n", "i", "t", "y">>
         THEN JOk(PyNum(<<"-", "I", "n", "f">>), i + 9)
    ELSE JFail(i)

\* scan_once at i when s[i] opens no string, object or array: a constant, a
\* number (n is the index after it), a non-finite number, in this order
ScanScalar(s, i, n) ==
    IF ScanConstant(s, i).ok THEN ScanConstant(s, i)
    ELSE IF n > i THEN JOk(PyNum(Slice(s, i, n - 1)), n)
    ELSE ScanNonFinite(s, i)

\* scan_once, JSONArray and JSONObject call each other
RECURSIVE ScanOnce(_, _)
RECURSIVE JSONArrayItems(_, _, _)
RECURSIVE JSONObjectItems(_, _, _)

\* JSONArray after an item r: b is the index of the next non-blank character,
\* which must be "]" or ","
ArrayAfterItem(s, acc, r, b) ==
    IF CharAt(s, b) = "]" THEN JOk(PyList(Append(acc, r.v)), b + 1)
    ELSE IF CharAt(s, b) # "," THEN JFail(b)
    ELSE JSONArrayItems(s, SkipChars(s, b + 1, JsonWs), Append(acc, r.v))

\* JSONArray with the item r scanned at i
ArrayItem(s, i, acc, r) ==
    IF ~r.ok THEN JFail(i) ELSE ArrayAfterItem(s, acc, r, SkipChars(s, r.i, JsonWs))

\* the loop of JSONArray: an item at i, then "]" or ","
JSONArrayItems(s, i, acc) == ArrayItem(s, i, acc, ScanOnce(s, i))

\* JSONArray: a is the index of the first non-blank character after "["
JSONArray(s, a) ==
    IF CharAt(s, a) = "]" THEN JOk(PyList(<<>>), a + 1) ELSE JSONArrayItems(s, a, <<>>)

\* JSONObject after a pair: items are the pairs so far, b is the index of the
\* next non-blank character, which must be "}" or "," (and then a key)
ObjectAfterPair(s, items, b, n) ==
    IF CharAt(s, b) = "}" THEN JOk(PyDict(items), b + 1)
    ELSE IF CharAt(s, b) # "," THEN JFail(b)
    ELSE IF CharAt(s, n) # QT THEN JFail(n)
    ELSE JSONObjectItems(s, n + 1, items)

\* JSONObject with the value r scanned for key k
ObjectValue(s, c, acc, k, r) ==
    IF ~r.ok THEN JFail(c)
    ELSE ObjectAfterPair(s, DictSet(acc, k, r.v), SkipChars(s, r.i, JsonWs),
                         SkipChars(s, SkipChars(s, r.i, JsonWs) + 1, JsonWs))

\* JSONObject with the key k scanned: c is the index of the next non-blank
\* character, which must be ":"
ObjectKey(s, i, acc, k, c) ==
    IF ~k.ok THEN JFail(i)
    ELSE IF CharAt(s, c) # ":" THEN JFail(c)
    ELSE ObjectValue(s, c, acc, k.v.v, ScanOnce(s, SkipChars(s, c + 1, JsonWs)))

\* the loop of JSONObject: i is the index after the key's opening quote
JSONObjectItems(s, i, acc) ==
    ObjectKey(s, i, acc, ScanString(s, i), SkipChars(s, ScanString(s, i).i, JsonWs))

\* JSONObject: a is the index of the first non-blank character after "{"
JSONObject(s, a) ==
    IF CharAt(s, a) = "}" THEN JOk(PyDict(<<>>), a + 1)
    ELSE IF CharAt(s, a) # QT THEN JFail(a)
    ELSE JSONObjectItems(s, a + 1, <<>>)

\* scan_once: one JSON value starting at index i
ScanOnce(s, i) ==
    IF CharAt(s, i) = "" THEN JFail(i)
    ELSE IF CharAt(s, i) = QT THEN ScanString(s, i + 1)
    ELSE IF CharAt(s, i) = "{" THEN JSONObject(s, SkipChars(s, i + 1, JsonWs))
    ELSE IF CharAt(s, i) = "[" THEN JSONArray(s, SkipChars(s, i + 1, JsonWs))
    ELSE ScanScalar(s, i, ScanNumberEnd(s, i))

\* raw_decode's result r checked by decode: only whitespace may follow it
CheckEnd(s, r) ==
    IF ~r.ok THEN [exc |-> "JSONDecodeError", val |-> PyNone]
    ELSE IF SkipChars(s, r.i, JsonWs) # Len(s) + 1
         THEN [exc |-> "JSONDecodeError", val |-> PyNone]
    ELSE [exc |-> "", val |-> r.v]

\* json.loads(s): [exc, val].  exc is "JSONDecodeError" when s is not one JSON
\* document (no value, or extra data after it), "" otherwise.
JsonLoads(s) == CheckEnd(s, ScanOnce(s, SkipChars(s, 1, JsonWs)))

\* ------------------------------------------------------------------------
\* core/llm_handler.py
\* ------------------------------------------------------------------------
TitleKey == <<"t", "i", "t", "l", "e">>
PointsKey == <<"p", "o", "i", "n", "t", "s">>

\* {"title": title, "points": points}
SlideDict(title, points) ==
    PyDict(<<<<TitleKey, PyStr(title)>>, <<PointsKey, PyList(points)>>>>)

\* a function's outcome: the exception it raised ("" for none) and its value
Returned(val) == [exc |-> "", val |-> val]
Raised(exc) == [exc |-> exc, val |-> PyNone]

MaxTitleWords == 6
TruncateAt == 200
Ellipsis == <<".", ".", ".">>

\* llm_handler.py:150-153: the line opens a new slide
IsTitleLine(line) ==
    \/ StartsWith(line, <<"#">>)
    \/ (StartsWith(line, <<"*", "*">>) /\ EndsWith(line, <<"*", "*">>))
    \/ EndsWith(line, <<":">>)
    \/ /\ WordCount(line) <= MaxTitleWords
       /\ ~StartsWith(line, <<"-">>)
       /\ ~StartsWith(line, <<"*">>)

\* llm_handler.py:163, first disjunct
StartsWithMarker(line) == CharAt(line, 1) \in {"-", "*", BULLET}

\* llm_handler.py:163: line[1] of a one-character line is an IndexError
BulletTestRaises(line) ==
    ~StartsWithMarker(line) /\ IsDigit(line[1]) /\ Len(line) < 2

\* llm_handler.py:163: the line is a bullet point
IsBulletLine(line) ==
    \/ StartsWithMarker(line)
    \/ (IsDigit(line[1]) /\ CharAt(line, 2) \in {".", ")", ":"})

\* re.sub(r'^[-*•]\s*', '', line)
SubMarker(line) ==
    IF StartsWithMarker(line)
    THEN Slice(line, SkipChars(line, 2, PyWhitespace), Len(line))
    ELSE line

\* re.sub(r'^\d+[.):]\s*', '', point)
SubNumber(point) ==
    LET d == SkipChars(point, 1, Digits)
    IN  IF d > 1 /\ CharAt(point, d) \in {".", ")", ":"}
        THEN Slice(point, SkipChars(point, d + 1, PyWhitespace), Len(point))
        ELSE point

\* llm_handler.py:166-168
CleanPoint(line) == Strip(SubNumber(SubMarker(line)))

\* llm_handler.py:160
CleanTitle(line) == Strip(StripChars(line, {"#", " ", "*", ":"}))

\* current_slide["points"].append(point)
AppendPoint(slide, point) ==
    PyDict(DictSet(slide.v, PointsKey,
                   PyList(Append(DictGet(slide, PointsKey, PyList(<<>>)).v, PyStr(point)))))

\* llm_handler.py:144-168, the loop over the lines: st is
\* [slides, current_slide, exc]
RECURSIVE ManualLoop(_, _)
ManualLoop(lines, st) ==
    IF lines = <<>> \/ st.exc # "" THEN st
    ELSE LET line == Strip(Head(lines))
             rest == Tail(lines)
         IN  IF line = <<>> THEN ManualLoop(rest, st)
             ELSE IF IsTitleLine(line)
             THEN ManualLoop(rest,
                    [slides |-> IF Truthy(st.current_slide)
                                THEN Append(st.slides, st.current_slide)
                                ELSE st.slides,
                     current_slide |-> SlideDict(CleanTitle(line), <<>>),
                     exc |-> ""])
             ELSE IF BulletTestRaises(line)
             THEN [st EXCEPT !.exc = "IndexError"]
             ELSE IF IsBulletLine(line)
             THEN ManualLoop(rest,
                    IF Truthy(st.current_slide)
                    THEN [st EXCEPT !.current_slide = AppendPoint(st.current_slide, CleanPoint(line))]
                    ELSE st)
             ELSE ManualLoop(rest, st)

\* mutant of OverviewPoint: the text is not cut
OverviewPointUncut(content) == content

\* llm_handler.py:178
OverviewPoint(content) ==
    IF Len(content) > TruncateAt THEN Take(content, TruncateAt) \o Ellipsis ELSE content

ContentOverview == <<"C", "o", "n", "t", "e", "n", "t", " ", "O", "v", "e", "r", "v", "i", "e", "w">>

\* llm_handler.py:140-168: the loop's final [slides, current_slide, exc]
ManualScan(content) ==
    ManualLoop(Split(Strip(content), <<NL>>),
               [slides |-> <<>>, current_slide |-> PyNone, exc |-> ""])

\* llm_handler.py:170-172: the last slide is added
ManualSlides(st) ==
    IF Truthy(st.current_slide) THEN Append(st.slides, st.current_slide) ELSE st.slides

\* llm_handler.py:174-181
ManualResult(content, slides) ==
    IF slides = <<>>
    THEN Returned(PyList(<<SlideDict(ContentOverview, <<PyStr(OverviewPoint(content))>>)>>))
    ELSE Returned(PyList(slides))

\* llm_handler.py:138-181, after the loop
ManualFinish(content, st) ==
    IF st.exc # "" THEN Raised(st.exc) ELSE ManualResult(content, ManualSlides(st))

\* llm_handler.py:138-181
_manual_parse_response(content) == ManualFinish(content, ManualScan(content))

\* re.search(r'\[.*\]', content, re.DOTALL): <<first, last>> indexes of the
\* match, from the first "[" to the last "]" after it; <<0, 0>> for no match
BracketMatch(content) ==
    LET f == Find(content, <<"[">>, 1)
    IN  IF f = 0 THEN <<0, 0>>
        ELSE IF \E j \in (f + 1)..Len(content) : content[j] = "]"
        THEN <<f, CHOOSE j \in (f + 1)..Len(content) :
                    content[j] = "]" /\ \A k \in (j + 1)..Len(content) : content[k] # "]">>
        ELSE <<0, 0>>

HasBracketMatch(content) == BracketMatch(content)[1] # 0
\* json_match.group(0)
BracketSpan(content) == Slice(content, BracketMatch(content)[1], BracketMatch(content)[2])

\* mutant of StructuredParse: a bracketed span that fails to parse is followed
\* by a parse of the whole response
StructuredParseRetry(content) ==
    IF HasBracketMatch(content) /\ JsonLoads(BracketSpan(content)).exc = ""
    THEN JsonLoads(BracketSpan(content))
    ELSE JsonLoads(content)

\* llm_handler.py:124-130: the one json.loads call of the try block
StructuredParse(content) ==
    IF HasBracketMatch(content) THEN JsonLoads(BracketSpan(content)) ELSE JsonLoads(content)

\* mutant of ParseOrManual: the JSONDecodeError is not caught
ParseNoCatch(content, r) == r

\* llm_handler.py:132-136: r is the outcome of the try block
ParseOrManual(content, r) ==
    IF r.exc = "JSONDecodeError" THEN _manual_parse_response(content) ELSE r

\* llm_handler.py:120-136
_parse_llm_response(content) == ParseOrManual(content, StructuredParse(content))

SentencesPerGroup == 3
MaxContentSlides == 10
MaxSlideTitleWords == 8
MaxPointsPerSlide == 5

\* str(n) for n >= 0
RECURSIVE IntStr(_)
IntStr(n) ==
    LET d == <<"0", "1", "2", "3", "4", "5", "6", "7", "8", "9">>[(n % 10) + 1]
    IN  IF n < 10 THEN <<d>> ELSE IntStr(n \div 10) \o <<d>>

\* llm_handler.py:188 and :192: [p.strip() for p in text.split(sep) if p.strip()]
NonBlankPieces(text, sep) == SelectNonBlankStripped(Split(text, sep))

\* mutant of GroupSentences: the last, shorter group is not flushed
RECURSIVE GroupSentencesNoTail(_, _, _, _)
GroupSentencesNoTail(sentences, i, n, current_para) ==
    IF sentences = <<>> THEN <<>>
    ELSE LET para == current_para \o Head(sentences) \o <<".", " ">>
         IN  IF (i + 1) % 3 = 0
             THEN <<Strip(para)>> \o GroupSentencesNoTail(Tail(sentences), i + 1, n, <<>>)
             ELSE GroupSentencesNoTail(Tail(sentences), i + 1, n, para)

\* llm_handler.py:193-199: i is the 0-based index of Head(sentences) among
\* the n sentences
RECURSIVE GroupSentences(_, _, _, _)
GroupSentences(sentences, i, n, current_para) ==
    IF sentences = <<>> THEN <<>>
    ELSE LET para == current_para \o Head(sentences) \o <<".", " ">>
         IN  IF (i + 1) % SentencesPerGroup = 0 \/ i = n - 1
             THEN <<Strip(para)>> \o GroupSentences(Tail(sentences), i + 1, n, <<>>)
             ELSE GroupSentences(Tail(sentences), i + 1, n, para)

\* llm_handler.py:192-199
SentenceParagraphs(sentences) == GroupSentences(sentences, 0, Len(sentences), <<>>)

\* llm_handler.py:190-199: paragraphs are those of line 188
ParagraphsOr(text_content, paragraphs) ==
    IF Len(paragraphs) <= 1
    THEN SentenceParagraphs(NonBlankPieces(text_content, <<".">>))
    ELSE paragraphs

\* llm_handler.py:188-199
Paragraphs(text_content) ==
    ParagraphsOr(text_content, NonBlankPieces(text_content, <<NL, NL>>))

PresentationOverview ==
    <<"P", "r", "e", "s", "e", "n", "t", "a", "t", "i", "o", "n", " ",
      "O", "v", "e", "r", "v", "i", "e", "w">>
BasedOnProvidedContent ==
    <<"B", "a", "s", "e", "d", " ", "o", "n", " ", "p", "r", "o", "v", "i", "d", "e", "d", " ",
      "c", "o", "n", "t", "e", "n", "t">>
GeneratedAutomatically ==
    <<"G", "e", "n", "e", "r", "a", "t", "e", "d", " ",
      "a", "u", "t", "o", "m", "a", "t", "i", "c", "a", "l", "l", "y">>
TopicPrefix == <<"T", "o", "p", "i", "c", " ">>

\* llm_handler.py:204-211
TitleSlide(guidance) ==
    SlideDict(IF guidance # <<>> THEN Title(guidance) ELSE PresentationOverview,
              <<PyStr(BasedOnProvidedContent), PyStr(GeneratedAutomatically)>>)

RECURSIVE WithPeriod(_)
\* llm_handler.py:223: [s.strip() + '.' for s in para.split('.') if s.strip()]
WithPeriod(pieces) ==
    IF pieces = <<>> THEN <<>>
    ELSE <<PyStr(Head(pieces) \o <<".">>)>> \o WithPeriod(Tail(pieces))

\* llm_handler.py:215-229: the slide of paragraph para, the (i+1)-th
ContentSlide(i, para) ==
    LET first_sentence == Strip(Split(para, <<".">>)[1])
        slide_title == IF WordCount(first_sentence) <= MaxSlideTitleWords
                       THEN first_sentence
                       ELSE TopicPrefix \o IntStr(i + 1)
        sentences == WithPeriod(NonBlankPieces(para, <<".">>))
    IN  SlideDict(slide_title, Take(sentences, MaxPointsPerSlide))

\* llm_handler.py:214-229: the slides of the paragraphs from the (i+1)-th on
RECURSIVE ContentSlides(_, _)
ContentSlides(paragraphs, i) ==
    IF i >= Len(paragraphs) THEN <<>>
    ELSE <<ContentSlide(i, paragraphs[i + 1])>> \o ContentSlides(paragraphs, i + 1)

\* llm_handler.py:183-231
_fallback_text_analysis(text_content, guidance) ==
    Returned(PyList(<<TitleSlide(guidance)>> \o
                    ContentSlides(Take(Paragraphs(text_content), MaxContentSlides), 0)))

OpenAI == <<"o", "p", "e", "n", "a", "i">>
Anthropic == <<"a", "n", "t", "h", "r", "o", "p", "i", "c">>
Gemini == <<"g", "e", "m", "i", "n", "i">>

\* llm_handler.py:47-52: one of the three branches that call a provider is taken
KnownProvider(llm_provider) == Lower(llm_provider) \in {OpenAI, Anthropic, Gemini}

\* mutant of KeyMissing: the key is never checked
KeyMissingNever(api_key) == FALSE

\* llm_handler.py:11: not api_key
KeyMissing(api_key) == api_key = <<>>

\* llm_handler.py:61-118, _call_openai / _call_anthropic / _call_gemini: the
\* provider's outcome is [raises, text]; the text is stripped and parsed, an
\* exception is re-raised
CallProvider(outcome) ==
    IF outcome.raises THEN Raised("ProviderError")
    ELSE _parse_llm_response(Strip(outcome.text))

\* llm_handler.py:46-54: the try block
TryProvider(llm_provider, outcome) ==
    IF KnownProvider(llm_provider) THEN CallProvider(outcome) ELSE Raised("ValueError")

\* llm_handler.py:56-59: r is the outcome of the try block
ExceptFallback(text_content, guidance, r) ==
    IF r.exc # "" THEN _fallback_text_analysis(text_content, guidance) ELSE r

\* llm_handler.py:6-59, given the outcome of the provider call (if one is made)
generate_slide_content(text_content, guidance, llm_provider, api_key, outcome) ==
    IF KeyMissing(api_key) THEN Raised("ValueError")
    ELSE ExceptFallback(text_content, guidance, TryProvider(llm_provider, outcome))

\* ------------------------------------------------------------------------
\* State
\* ------------------------------------------------------------------------
VARIABLES
    \* one call of generate_slide_content (llm_handler.py:6-59)
    text_content, guidance, llm_provider, api_key,
    pc,                 \* where the call is
    provider_outcome,   \* "none", "raised" or "returned": what the provider call did
    content,            \* the stripped text the provider returned
    result,             \* the value the call returned
    provider_calls,     \* provider calls made
    fallback_used,      \* _fallback_text_analysis was run
    \* one call of create_ppt_from_template (generator.py:6-62)
    slide_data, template, saved,
    \* POST /generate-ppt (main.py:29-86), per request
    request, rpc, temp_dir, generated, fs, response, background_tasks, next_dir

derive_vars == <<text_content, guidance, llm_provider, api_key, pc, provider_outcome,
                 content, result, provider_calls, fallback_used>>
render_vars == <<slide_data, template, saved>>
request_vars == <<request, rpc, temp_dir, generated, fs, response, background_tasks,
                  next_dir>>
vars == <<derive_vars, render_vars, request_vars>>

\* the parts of the state a specification does not use
DeriveOff ==
    /\ text_content = <<>> /\ guidance = <<>> /\ llm_provider = <<>> /\ api_key = <<>>
    /\ provider_outcome = "none" /\ content = <<>> /\ result = PyNone
    /\ provider_calls = 0 /\ fallback_used = FALSE
RenderOff == slide_data = PyNone /\ template = PyNone /\ saved = PyNone
RequestOff ==
    /\ request = <<>> /\ rpc = <<>> /\ temp_dir = <<>> /\ generated = <<>> /\ fs = <<>>
    /\ response = <<>> /\ background_tasks = <<>> /\ next_dir = 0

\* ------------------------------------------------------------------------
\* Inputs
\* ------------------------------------------------------------------------
\* lines joined by "\n"
RECURSIVE JoinLines(_)
JoinLines(lines) ==
    IF Len(lines) = 0 THEN <<>>
    ELSE IF Len(lines) = 1 THEN lines[1]
    ELSE lines[1] \o <<NL>> \o JoinLines(Tail(lines))

\* s repeated n times
RECURSIVE Rep(_, _)
Rep(s, n) ==
    IF n = 0 THEN <<>>
    ELSE IF n % 2 = 0 THEN LET half == Rep(s, n \div 2) IN half \o half
    ELSE s \o Rep(s, n - 1)

\* most lines of a provider response
MaxLines == 2
\* repetitions of "ab " in the long one-line responses: 3n-1 characters
LongReps == 68

SlideJsonLine ==
    <<"[", "{", QT, "t", "i", "t", "l", "e", QT, ":", QT, "A", QT, ",",
      QT, "p", "o", "i", "n", "t", "s", QT, ":", "[", QT, "x", QT, "]", "}", "]">>

ResponseLines ==
    { <<"I", "n", "t", "r", "o", ":">>,
      <<"-", " ", "p", "o", "i", "n", "t", " ", "o", "n", "e">>,
      <<"*", " ", "o", "n", "l", "y", " ", "p", "o", "i", "n", "t">>,
      <<"N", "e", "x", "t", " ", "T", "o", "p", "i", "c">>,
      <<BULLET, " ", "h", "i">>,
      <<"1", ".", " ", "g", "o">>,
      <<"#">>,
      <<"a", " ", "b", " ", "c", " ", "d", " ", "e", " ", "f", " ", "g">>,
      <<"2", ")", " ", "a", " ", "b", " ", "c", " ", "d", " ", "e", " ", "f", " ", "g">>,
      <<>>,
      SlideJsonLine,
      <<"]">>,
      <<"[">> }

\* every response of 1..n lines of ResponseLines
RECURSIVE LineResponses(_)
LineResponses(n) ==
    IF n = 0 THEN {}
    ELSE IF n = 1 THEN ResponseLines
    ELSE LET shorter == LineResponses(n - 1)
         IN  shorter \cup {a \o <<NL>> \o b : a \in shorter, b \in ResponseLines}

HeuristicExample ==
    JoinLines(<< <<"I", "n", "t", "r", "o", ":">>,
                 <<"-", " ", "p", "o", "i", "n", "t", " ", "o", "n", "e">>,
                 <<"-", " ", "p", "o", "i", "n", "t", " ", "t", "w", "o">>,
                 <<"N", "e", "x", "t", " ", "T", "o", "p", "i", "c">>,
                 <<"*", " ", "o", "n", "l", "y", " ", "p", "o", "i", "n", "t">> >>)

TwoArraysObject ==
    <<"{", QT, "a", QT, ":", "[", "1", "]", ",", QT, "b", QT, ":", "[", "2", "]", "}">>

SpecialResponses ==
    { HeuristicExample,
      <<"[", "]">>,
      <<"[", "{", QT, "p", "o", "i", "n", "t", "s", QT, ":", "[", "]", "}", "]">>,
      TwoArraysObject,
      JoinLines(<< <<"H", "e", "r", "e", " ", "i", "s", " ", "t", "h", "e", " ",
                     "r", "e", "s", "u", "l", "t", ":">>,
                   SlideJsonLine,
                   <<"T", "h", "a", "n", "k", "s">> >>),
      <<"{", QT, "t", "i", "t", "l", "e", QT, ":", QT, "A", QT, "}">>,
      <<QT, "[", "a", "]", QT>>,
      <<"7">>,
      <<"0">>,
      <<"[", "1", "]">>,
      <<" ", " ">> \o SlideJsonLine \o <<" ", NL>>,
      Rep(<<"a", "b", " ">>, LongReps - 1),
      Rep(<<"a", "b", " ">>, LongReps) }

\* the raw texts a provider call may return
ProviderTexts == LineResponses(MaxLines) \cup SpecialResponses

FourSentences ==
    <<"S", "e", "n", "t", "e", "n", "c", "e", " ", "o", "n", "e", ".", " ",
      "S", "e", "n", "t", "e", "n", "c", "e", " ", "t", "w", "o", ".", " ",
      "S", "e", "n", "t", "e", "n", "c", "e", " ", "t", "h", "r", "e", "e", ".", " ",
      "S", "e", "n", "t", "e", "n", "c", "e", " ", "f", "o", "u", "r", ".">>

DeriveTexts == { FourSentences, <<".", " ", "a", "b", "c", NL, NL, "f", "o", "o">> }
Guidances == { <<>>, <<"m", "y", " ", "t", "a", "l", "k">> }
ProviderNames ==
    { OpenAI, <<"A", "n", "t", "h", "r", "o", "p", "i", "c">>, Gemini, <<"b", "a", "r", "d">> }
ApiKeys == { <<>>, <<"s", "k", "-", "1">> }

\* ------------------------------------------------------------------------
\* generate_slide_content, step by step
\* ------------------------------------------------------------------------
DeriveInit ==
    /\ text_content \in DeriveTexts
    /\ guidance \in Guidances
    /\ llm_provider \in ProviderNames
    /\ api_key \in ApiKeys
    /\ pc = "entry"
    /\ provider_outcome = "none"
    /\ content = <<>>
    /\ result = PyNone
    /\ provider_calls = 0
    /\ fallback_used = FALSE
    /\ RenderOff /\ RequestOff

\* llm_handler.py:11-12
CheckKey ==
    /\ pc = "entry"
    /\ pc' = IF KeyMissing(api_key) THEN "raised" ELSE "try"
    /\ UNCHANGED <<text_content, guidance, llm_provider, api_key, provider_outcome,
                   content, result, provider_calls, fallback_used>>
    /\ UNCHANGED <<render_vars, request_vars>>

\* llm_handler.py:46-54: a known provider is called, an unknown one raises
\* ValueError inside the try block
Dispatch ==
    /\ pc = "try"
    /\ pc' = IF KnownProvider(llm_provider) THEN "call" ELSE "except"
    /\ UNCHANGED <<text_content, guidance, llm_provider, api_key, provider_outcome,
                   content, result, provider_calls, fallback_used>>
    /\ UNCHANGED <<render_vars, request_vars>>

\* llm_handler.py:63-82 (and :86-103, :107-118): the SDK call raises and the
\* exception is re-raised
ProviderRaises ==
    /\ pc = "call"
    /\ provider_calls' = provider_calls + 1
    /\ provider_outcome' = "raised"
    /\ pc' = "except"
    /\ UNCHANGED <<text_content, guidance, llm_provider, api_key, content, result,
                   fallback_used>>
    /\ UNCHANGED <<render_vars, request_vars>>

\* llm_handler.py:77 (and :98, :113): the SDK call returns text, which is stripped
ProviderReturns ==
    /\ pc = "call"
    /\ \E text \in ProviderTexts : content' = Strip(text)
    /\ provider_calls' = provider_calls + 1
    /\ provider_outcome' = "returned"
    /\ pc' = "parse"
    /\ UNCHANGED <<text_content, guidance, llm_provider, api_key, result, fallback_used>>
    /\ UNCHANGED <<render_vars, request_vars>>

\* llm_handler.py:78 (and :99, :114): return _parse_llm_response(content); an
\* exception it lets through reaches the except of generate_slide_content
Parse ==
    /\ pc = "parse"
    /\ \E r \in {_parse_llm_response(content)} :
           /\ pc' = IF r.exc = "" THEN "returned" ELSE "except"
           /\ result' = r.val
    /\ UNCHANGED <<text_content, guidance, llm_provider, api_key, provider_outcome,
                   content, provider_calls, fallback_used>>
    /\ UNCHANGED <<render_vars, request_vars>>

\* llm_handler.py:56-59
Fallback ==
    /\ pc = "except"
    /\ result' = _fallback_text_analysis(text_content, guidance).val
    /\ fallback_used' = TRUE
    /\ pc' = "returned"
    /\ UNCHANGED <<text_content, guidance, llm_provider, api_key, provider_outcome,
                   content, provider_calls>>
    /\ UNCHANGED <<render_vars, request_vars>>

DeriveNext ==
    \/ CheckKey
    \/ Dispatch
    \/ ProviderRaises
    \/ ProviderReturns
    \/ Parse
    \/ Fallback

SpecDerive == DeriveInit /\ [][DeriveNext]_vars

\* ------------------------------------------------------------------------
\* Properties of generate_slide_content (SpecDerive)
\* ------------------------------------------------------------------------
\* v is a deck with at least one record, each a dict with a non-empty str title
IsTitledDeck(v) ==
    /\ v.t = "list"
    /\ v.v # <<>>
    /\ \A i \in 1..Len(v.v) :
          /\ v.v[i].t = "dict"
          /\ DictHas(v.v[i], TitleKey)
          /\ DictGet(v.v[i], TitleKey, PyNone).t = "str"
          /\ DictGet(v.v[i], TitleKey, PyNone).v # <<>>

\* the call returned after the provider returned text
ReturnedFromText == pc = "returned" /\ provider_outcome = "returned"

\* C1: for non-empty text_content and api_key, whatever the provider call
\* does, the call returns a deck with at least one record and every record
\* has a non-empty title.
C1_DeckNonEmptyAndTitled ==
    (text_content # <<>> /\ api_key # <<>> /\ KnownProvider(llm_provider)
        /\ pc \in {"returned", "raised"})
        => (pc = "returned" /\ IsTitledDeck(result))

\* C2: with a non-empty api_key and a provider name that is none of openai,
\* anthropic, gemini (case-insensitive), the call fails with an error that
\* reaches the caller; it returns no deck.
C2_UnsupportedProviderFails ==
    (api_key # <<>> /\ ~KnownProvider(llm_provider))
        => (pc # "returned" /\ ~fallback_used)

\* C3: the two fallback tiers are kept apart.  When the provider call raises,
\* the call still returns and the deck is the pure-text fallback of
\* text_content and guidance, with no parsing of a response; when the provider
\* call returns text, the deck is what parsing that text yields and the
\* pure-text fallback is never used.
C3_TiersApart ==
    /\ provider_outcome = "raised" =>
          /\ pc \in {"except", "returned"}
          /\ content = <<>>
          /\ pc = "returned" =>
                /\ fallback_used
                /\ result = _fallback_text_analysis(text_content, guidance).val
    /\ provider_outcome = "returned" =>
          /\ pc \in {"parse", "returned"}
          /\ ~fallback_used
          /\ pc = "returned" => result = _parse_llm_response(content).val

\* C3 witness: the provider returned text that is not JSON, and the call
\* returned the line-heuristic deck without the pure-text fallback
C3_Witness ==
    /\ ReturnedFromText
    /\ StructuredParse(content).exc = "JSONDecodeError"
    /\ ~fallback_used
    /\ result # _fallback_text_analysis(text_content, guidance).val

\* C5: with an empty api_key the call raises before any provider call is
\* attempted, for every provider name and every text_content, and no fallback
\* deck is produced.
C5_MissingKeyRaisesFirst ==
    api_key = <<>> =>
        /\ pc \in {"entry", "raised"}
        /\ provider_calls = 0
        /\ provider_outcome = "none"
        /\ ~fallback_used
        /\ result = PyNone

\* C5 witness: the call raised for an empty key and an unknown provider name
C5_Witness == api_key = <<>> /\ pc = "raised" /\ ~KnownProvider(llm_provider)

\* the line heuristic found no record in content
NoRecordFound(content_) == ManualSlides(ManualScan(content_)) = <<>>

\* structured parsing failed and the line heuristic found no record
AllHeuristicsFailed ==
    /\ ReturnedFromText
    /\ StructuredParse(content).exc = "JSONDecodeError"
    /\ NoRecordFound(content)

\* the first 200 characters of s plus "..." when s is longer, s otherwise
CutTo200(s) == IF Len(s) > 200 THEN SubSeq(s, 1, 200) \o <<".", ".", ".">> ELSE s

\* the one-slide deck titled "Content Overview" with the single point p
OverviewDeck(p) == PyList(<<SlideDict(ContentOverview, <<PyStr(p)>>)>>)

\* C7 (as claimed): when structured parsing fails and the line heuristic yields
\* no record, the deck is one "Content Overview" slide whose single point is
\* the original input text (text_content), cut to 200 characters plus an
\* ellipsis when longer.
C7_OverviewOfInputText ==
    AllHeuristicsFailed => result = OverviewDeck(CutTo200(text_content))

\* C7 (amended): when structured parsing fails and the line heuristic yields
\* no record, the deck is one "Content Overview" slide whose single point is
\* the provider's response text (stripped), cut to its first 200 characters
\* plus "..." when it is longer than 200 characters and unchanged otherwise;
\* the point is never longer than 203 characters.
C7_OverviewOfResponseText ==
    AllHeuristicsFailed =>
        /\ result = OverviewDeck(CutTo200(content))
        /\ Len(result.v[1].v[2][2].v[1].v) <= 203

\* C7 witness: the overview slide of a response longer than 200 characters
C7_Witness == AllHeuristicsFailed /\ Len(content) > 200

\* C8 (as claimed): the bracketed span is tried first; if there is no bracket
\* or the span fails to parse, the whole response is parsed as JSON; the line
\* heuristic is reached only after both have failed.
C8_WholeResponseRetried ==
    ReturnedFromText =>
        IF HasBracketMatch(content) /\ JsonLoads(BracketSpan(content)).exc = ""
        THEN result = JsonLoads(BracketSpan(content)).val
        ELSE IF JsonLoads(content).exc = ""
        THEN result = JsonLoads(content).val
        ELSE result = _manual_parse_response(content).val

\* C8 (amended): the bracketed span is tried first; the whole response is
\* parsed as JSON only when no bracketed span is found; the line heuristic is
\* reached as soon as the one structured attempt made fails, so a bracketed
\* span that fails to parse goes to the line heuristic without a parse of the
\* whole response.
C8_OneStructuredAttempt ==
    ReturnedFromText =>
        IF HasBracketMatch(content)
        THEN (IF JsonLoads(BracketSpan(content)).exc = ""
              THEN result = JsonLoads(BracketSpan(content)).val
              ELSE result = _manual_parse_response(content).val)
        ELSE (IF JsonLoads(content).exc = ""
              THEN result = JsonLoads(content).val
              ELSE result = _manual_parse_response(content).val)

\* C8 witness: the bracketed span fails to parse, the whole response is valid
\* JSON, and the deck is the line heuristic's
C8_Witness ==
    /\ ReturnedFromText
    /\ HasBracketMatch(content)
    /\ JsonLoads(BracketSpan(content)).exc = "JSONDecodeError"
    /\ JsonLoads(content).exc = ""
    /\ result = _manual_parse_response(content).val
    /\ result # JsonLoads(content).val

\* C9's reading of a line: it starts with a bullet marker
ClaimedBulletMarker(line) ==
    \/ CharAt(line, 1) \in {"-", "*", BULLET}
    \/ (CharAt(line, 1) \in Digits /\ CharAt(line, 2) \in {".", ")", ":"})

\* C9's reading of a line: a heading, bold-wrapped or colon-terminated line
ClaimedMarkedTitle(line) ==
    \/ StartsWith(line, <<"#">>)
    \/ (StartsWith(line, <<"*", "*">>) /\ EndsWith(line, <<"*", "*">>))
    \/ EndsWith(line, <<":">>)

\* C9's reading of a line: it opens a record
ClaimedTitleLine(line) ==
    \/ ClaimedMarkedTitle(line)
    \/ (WordCount(line) <= 6 /\ ~ClaimedBulletMarker(line))

\* the non-blank lines of a response that open a record, as C9 reads them
ClaimedTitleLines(content_) ==
    SelectSeq(SelectNonBlankStripped(Split(content_, <<NL>>)), ClaimedTitleLine)

\* C9: in the line heuristic a line that starts with a bullet marker and is no
\* heading, bold-wrapped or colon-terminated line never opens a record,
\* however short it is: the records are those of the title lines, in order.
C9_BulletLinesOpenNoRecord ==
    (ReturnedFromText /\ StructuredParse(content).exc = "JSONDecodeError"
        /\ ClaimedTitleLines(content) # <<>>)
        => /\ Len(result.v) = Len(ClaimedTitleLines(content))
           /\ \A i \in 1..Len(result.v) :
                 DictGet(result.v[i], TitleKey, PyNone).v
                     = CleanTitle(ClaimedTitleLines(content)[i])

\* ------------------------------------------------------------------------
\* _fallback_text_analysis on its own (SpecFallback)
\* ------------------------------------------------------------------------
\* most repetitions of the first piece of an input text
MaxReps == 32
\* most repetitions of the second piece
MaxTailReps == 2

TextPieces ==
    { <<"a", ".", " ">>,
      <<"b", " ", "c", ".", NL, NL>>,
      <<"a", " ", "b", " ", "c", " ", "d", " ", "e", " ", "f", " ", "g", " ", "h", " ", "i", ".", " ">>,
      <<"a", ".", "b", ".", "c", ".", "d", ".", "e", ".", "f", ".", NL, NL>>,
      <<".">>,
      <<" ", NL, NL>> }

\* a piece repeated, then another piece repeated
FallbackTexts ==
    { Rep(p, n) \o Rep(q, m) :
        p \in TextPieces, n \in 0..MaxReps, q \in TextPieces, m \in 0..MaxTailReps }

FallbackInit ==
    /\ text_content \in FallbackTexts
    /\ guidance \in Guidances
    /\ llm_provider = <<>>
    /\ api_key = <<>>
    /\ pc = "except"
    /\ provider_outcome = "none"
    /\ content = <<>>
    /\ result = PyNone
    /\ provider_calls = 0
    /\ fallback_used = FALSE
    /\ RenderOff /\ RequestOff

FallbackNext == Fallback

SpecFallback == FallbackInit /\ [][FallbackNext]_vars

\* the non-blank paragraphs of a text, separated by blank lines
BlankLineParagraphs(text) == NonBlankPieces(text, <<NL, NL>>)
\* the non-empty sentences of a text, separated by "."
DotSentences(text) == NonBlankPieces(text, <<".">>)

\* C10's P: the number of blank-line paragraphs, or with at most one of them
\* the number of groups of three sentences (the last may be shorter)
ClaimedParagraphs(text) ==
    IF Len(BlankLineParagraphs(text)) <= 1
    THEN (Len(DotSentences(text)) + 2) \div 3
    ELSE Len(BlankLineParagraphs(text))

\* the points C10 expects on the j-th content slide: the (at most 5 first)
\* sentences of the j-th paragraph, or of the j-th group of three sentences
ClaimedPoints(text, j) ==
    IF Len(BlankLineParagraphs(text)) <= 1
    THEN WithPeriod(Slice(DotSentences(text), 3 * (j - 1) + 1, 3 * j))
    ELSE Slice(WithPeriod(DotSentences(BlankLineParagraphs(text)[j])), 1, 5)

\* the smaller of two numbers
Smaller(a, b) == IF a < b THEN a ELSE b

\* C10: the pure-text fallback returns one title slide followed by min(10, P)
\* content slides in paragraph order; every content slide has at most 5
\* points and the deck never exceeds 11 slides.
C10_FallbackShape ==
    (pc = "returned" /\ fallback_used) =>
        /\ result.t = "list"
        /\ Len(result.v) = 1 + Smaller(10, ClaimedParagraphs(text_content))
        /\ Len(result.v) <= 11
        /\ DictGet(result.v[1], PointsKey, PyNone)
               = PyList(<<PyStr(BasedOnProvidedContent), PyStr(GeneratedAutomatically)>>)
        /\ \A j \in 1..(Len(result.v) - 1) :
              /\ Len(DictGet(result.v[j + 1], PointsKey, PyNone).v) <= 5
              /\ DictGet(result.v[j + 1], PointsKey, PyNone).v
                     = ClaimedPoints(text_content, j)

\* C10 witness: one paragraph of more than 30 sentences, whose last group is
\* shorter than three, gives the title slide and 10 content slides
C10_Witness ==
    /\ pc = "returned"
    /\ fallback_used
    /\ Len(BlankLineParagraphs(text_content)) <= 1
    /\ Len(DotSentences(text_content)) > 30
    /\ Len(DotSentences(text_content)) % 3 # 0
    /\ Len(result.v) = 11

\* ------------------------------------------------------------------------
\* generator.py: create_ppt_from_template
\* ------------------------------------------------------------------------
\* A presentation is [t |-> "pptx", layouts, slides]; a layout is the
\* sequence of its placeholders' types; a slide is the sequence of its
\* placeholders, each [type, text] with text the sequence of its paragraphs.
Pptx(layouts, slides) == [t |-> "pptx", layouts |-> layouts, slides |-> slides]

NoTitle == <<"N", "o", " ", "T", "i", "t", "l", "e">>

\* generator.py:11, Presentation(): the library's default document has no
\* slide; its first two layouts are "Title Slide" and "Title and Content"
DefaultPresentation ==
    Pptx(<< <<"CENTER_TITLE", "SUBTITLE", "DATE", "FOOTER", "SLIDE_NUMBER">>,
            <<"TITLE", "OBJECT", "DATE", "FOOTER", "SLIDE_NUMBER">> >>, <<>>)

\* generator.py:11: the template's document, with the slides it contains
Presentation(template_) ==
    IF template_.t = "none" THEN DefaultPresentation ELSE template_

\* generator.py:16
HasTitle(layout) == \E i \in 1..Len(layout) : layout[i] = "TITLE"
\* generator.py:18
HasBody(layout) == \E i \in 1..Len(layout) : layout[i] \in {"BODY", "OBJECT"}

\* generator.py:14-24: the first layout with a title and a body, else
\* slide_layouts[1]
SelectLayout(layouts) ==
    IF \E i \in 1..Len(layouts) : HasTitle(layouts[i]) /\ HasBody(layouts[i])
    THEN Returned(layouts[CHOOSE i \in 1..Len(layouts) :
                      /\ HasTitle(layouts[i]) /\ HasBody(layouts[i])
                      /\ \A j \in 1..(i - 1) : ~(HasTitle(layouts[j]) /\ HasBody(layouts[j]))])
    ELSE IF Len(layouts) >= 2 THEN Returned(layouts[2])
    ELSE Raised("IndexError")

\* generator.py:28, add_slide: the layout's placeholders are cloned empty,
\* except the date, footer and slide number
RECURSIVE add_slide(_)
add_slide(layout) ==
    IF layout = <<>> THEN <<>>
    ELSE (IF Head(layout) \in {"DATE", "FOOTER", "SLIDE_NUMBER"} THEN <<>>
          ELSE <<[type |-> Head(layout), text |-> <<>>]>>) \o add_slide(Tail(layout))

\* generator.py:30, slide.shapes.title: the position of the title
\* placeholder, 0 for None
TitleShape(slide) ==
    IF \E i \in 1..Len(slide) : slide[i].type \in {"TITLE", "CENTER_TITLE"}
    THEN CHOOSE i \in 1..Len(slide) :
             /\ slide[i].type \in {"TITLE", "CENTER_TITLE"}
             /\ \A j \in 1..(i - 1) : slide[j].type \notin {"TITLE", "CENTER_TITLE"}
    ELSE 0

\* generator.py:39-43: the position of the first placeholder that is not of
\* type TITLE, 0 for None
BodyShape(slide) ==
    IF \E i \in 1..Len(slide) : slide[i].type # "TITLE"
    THEN CHOOSE i \in 1..Len(slide) :
             /\ slide[i].type # "TITLE"
             /\ \A j \in 1..(i - 1) : slide[j].type = "TITLE"
    ELSE 0

\* the text a shape shows: its paragraphs joined by line breaks
ShapeText(shape) == JoinLines(shape.text)

\* generator.py:35-36
SetTitle(slide, item) ==
    IF TitleShape(slide) = 0 THEN Returned(slide)
    ELSE IF item.t # "dict" THEN Raised("AttributeError")
    ELSE IF DictGet(item, TitleKey, PyStr(NoTitle)).t # "str" THEN Raised("TypeError")
    ELSE Returned([slide EXCEPT ![TitleShape(slide)].text =
                       Split(DictGet(item, TitleKey, PyStr(NoTitle)).v, <<NL>>)])

\* the keys of a dict and the characters of a str, as str values
RECURSIVE KeysOf(_)
KeysOf(items) ==
    IF items = <<>> THEN <<>> ELSE <<PyStr(Head(items)[1])>> \o KeysOf(Tail(items))
RECURSIVE CharsOf(_)
CharsOf(str) ==
    IF str = <<>> THEN <<>> ELSE <<PyStr(<<Head(str)>>)>> \o CharsOf(Tail(str))

\* the strings of a sequence of str values
RECURSIVE StrValues(_)
StrValues(xs) == IF xs = <<>> THEN <<>> ELSE <<Head(xs).v>> \o StrValues(Tail(xs))

\* generator.py:49-59: the paragraphs the points leave in the body
PointParagraphs(points) ==
    IF ~Truthy(points) THEN Returned(<< <<>> >>)
    ELSE IF points.t = "list"
         THEN IF \A i \in 1..Len(points.v) : points.v[i].t = "str"
              THEN Returned(StrValues(points.v))
              ELSE Raised("TypeError")
    ELSE IF points.t = "str" THEN Returned(StrValues(CharsOf(points.v)))
    ELSE IF points.t = "dict" THEN Raised("KeyError")
    ELSE Raised("TypeError")

\* generator.py:47-59, on the slide the title step left
FillBody(r, item) ==
    IF r.exc # "" THEN r
    ELSE IF BodyShape(r.val) = 0 THEN r
    ELSE IF item.t # "dict" THEN Raised("AttributeError")
    ELSE IF PointParagraphs(DictGet(item, PointsKey, PyList(<<>>))).exc # ""
         THEN Raised(PointParagraphs(DictGet(item, PointsKey, PyList(<<>>))).exc)
    ELSE Returned([r.val EXCEPT ![BodyShape(r.val)].text =
                       PointParagraphs(DictGet(item, PointsKey, PyList(<<>>))).val])

\* generator.py:28-59: the slide of one item
RenderItem(layout, item) == FillBody(SetTitle(add_slide(layout), item), item)

\* generator.py:27: what iterating slide_data yields
Iterate(slide_data_) ==
    CASE slide_data_.t = "list" -> Returned(slide_data_.v)
      [] slide_data_.t = "dict" -> Returned(KeysOf(slide_data_.v))
      [] slide_data_.t = "str"  -> Returned(CharsOf(slide_data_.v))
      [] OTHER -> Raised("TypeError")

\* generator.py:27-59: slides appended after those the document already has
RECURSIVE RenderItems(_, _, _)
RenderItems(slides, layout, items) ==
    IF items = <<>> THEN Returned(slides)
    ELSE IF RenderItem(layout, Head(items)).exc # ""
         THEN Raised(RenderItem(layout, Head(items)).exc)
    ELSE RenderItems(slides \o <<RenderItem(layout, Head(items)).val>>, layout, Tail(items))

\* generator.py:27-62 with the layout chosen
RenderWith(prs, layout, items) ==
    IF layout.exc # "" THEN layout
    ELSE IF items.exc # "" THEN items
    ELSE IF RenderItems(prs.slides, layout.val, items.val).exc # ""
         THEN Raised(RenderItems(prs.slides, layout.val, items.val).exc)
    ELSE Returned(Pptx(prs.layouts, RenderItems(prs.slides, layout.val, items.val).val))

\* generator.py:11-62 on the loaded document
RenderInto(prs, slide_data_) ==
    RenderWith(prs, SelectLayout(prs.layouts), Iterate(slide_data_))

\* generator.py:6-62: the document saved at output_path, or the exception
create_ppt_from_template(slide_data_, template_) ==
    RenderInto(Presentation(template_), slide_data_)
\* ------------------------------------------------------------------------
\* create_ppt_from_template on its own (SpecRender)
\* ------------------------------------------------------------------------
\* most layouts of a template
MaxLayouts == 2
\* most slides a template already contains
MaxTemplateSlides == 1
\* most records of a deck
MaxDeck == 2

Layouts ==
    { <<"TITLE", "OBJECT", "DATE", "FOOTER", "SLIDE_NUMBER">>,
      <<"CENTER_TITLE", "SUBTITLE">>,
      <<"BODY", "TITLE">>,
      <<"TITLE">>,
      <<>> }

\* the sequences of at most n elements of S
RECURSIVE SeqsUpTo(_, _)
SeqsUpTo(S, n) ==
    IF n = 0 THEN {<<>>}
    ELSE SeqsUpTo(S, n - 1) \cup
         { q \o <<x>> : q \in { q2 \in SeqsUpTo(S, n - 1) : Len(q2) = n - 1 }, x \in S }

\* a slide a template already contains
OldSlide == <<[type |-> "TITLE", text |-> << <<"O", "l", "d">> >>]>>

Templates ==
    {PyNone} \cup
    { Pptx(ls, Rep(OldSlide, n)) :
        ls \in SeqsUpTo(Layouts, MaxLayouts) \ {<<>>}, n \in 0..MaxTemplateSlides }

Records ==
    { SlideDict(<<"A">>, <<PyStr(<<"x">>), PyStr(<<"y">>)>>),
      SlideDict(<<"B">>, <<>>),
      PyDict(<< <<TitleKey, PyStr(<<"C", NL, "D">>)>> >>),
      PyDict(<< <<PointsKey, PyList(<<PyStr(<<"z">>)>>)>> >>) }

Decks ==
    { PyList(q) : q \in SeqsUpTo(Records, MaxDeck) } \cup
    { SlideDict(<<"A">>, <<>>), PyList(<<PyStr(<<"A">>)>>), PyStr(<<"A">>),
      PyList(<<PyDict(<< <<TitleKey, PyNone>> >>)>>) }

RenderInit ==
    /\ slide_data \in Decks
    /\ template \in Templates
    /\ saved = PyNone
    /\ pc = "render"
    /\ DeriveOff /\ RequestOff

\* generator.py:61-62: the document is saved
SaveDocument ==
    /\ pc = "render"
    /\ \E r \in {create_ppt_from_template(slide_data, template)} :
          /\ r.exc = ""
          /\ saved' = r.val
    /\ pc' = "saved"
    /\ UNCHANGED <<text_content, guidance, llm_provider, api_key, provider_outcome,
                   content, result, provider_calls, fallback_used>>
    /\ UNCHANGED <<slide_data, template>>
    /\ UNCHANGED request_vars

\* generator.py:24, 27-59: an exception leaves the function, nothing is saved
RenderRaises ==
    /\ pc = "render"
    /\ \E r \in {create_ppt_from_template(slide_data, template)} : r.exc # ""
    /\ pc' = "raised"
    /\ UNCHANGED <<text_content, guidance, llm_provider, api_key, provider_outcome,
                   content, result, provider_calls, fallback_used>>
    /\ UNCHANGED render_vars
    /\ UNCHANGED request_vars

RenderNext == SaveDocument \/ RenderRaises

SpecRender == RenderInit /\ [][RenderNext]_vars

\* a list of dicts, each with a str title
IsRecordDeck(v) ==
    /\ v.t = "list"
    /\ \A i \in 1..Len(v.v) :
          /\ v.v[i].t = "dict"
          /\ DictGet(v.v[i], TitleKey, PyNone).t = "str"

\* C6: for every deck and every template, also one that already contains
\* slides, the saved document has exactly one slide per record, in deck
\* order: as many slides as records, and the i-th slide's title placeholder,
\* when the slide has one, shows the i-th record's title.
C6_OneSlidePerRecord ==
    (pc = "saved" /\ IsRecordDeck(slide_data)) =>
        /\ Len(saved.slides) = Len(slide_data.v)
        /\ \A i \in 1..Len(slide_data.v) :
              (i <= Len(saved.slides) /\ TitleShape(saved.slides[i]) # 0) =>
                  ShapeText(saved.slides[i][TitleShape(saved.slides[i])])
                      = DictGet(slide_data.v[i], TitleKey, PyNone).v

\* ------------------------------------------------------------------------
\* main.py: POST /generate-ppt (SpecRequest)
\* ------------------------------------------------------------------------
\* requests in flight
MaxRequests == 2
\* pieces in which a response file is sent
FileChunks == 2

Requests == 1..MaxRequests

\* the file system: the temporary directories and their files <<dir, name>>
FileSystem(dirs, files) == [dirs |-> dirs, files |-> files]

\* mutant of cleanup_directory: the directory is left in place
cleanup_directory_kept(fs_, path) == fs_

\* main.py:24-27, shutil.rmtree(path)
cleanup_directory(fs_, path) ==
    FileSystem(fs_.dirs \ {path}, { f \in fs_.files : f[1] # path })

\* str.replace(' ', '_')
RECURSIVE ReplaceSpaces(_)
ReplaceSpaces(str) ==
    IF str = <<>> THEN <<>>
    ELSE <<IF Head(str) = " " THEN "_" ELSE Head(str)>> \o ReplaceSpaces(Tail(str))

\* main.py:61
safe_filename(filename) == ReplaceSpaces(filename) \o <<".", "p", "p", "t", "x">>

\* an uploaded template: its file name and its document
Upload(filename, doc) == [t |-> "upload", filename |-> filename, doc |-> doc]

\* main.py:42-47, 67: the document create_ppt_from_template loads
TemplateDocument(template_file) ==
    IF template_file.t = "none" THEN PyNone ELSE template_file.doc

BaseRequest ==
    [ text_content |-> <<"H", "e", "l", "l", "o", ".", " ", "W", "o", "r", "l", "d">>,
      guidance |-> <<>>,
      llm_provider |-> OpenAI,
      api_key |-> <<"s", "k", "-", "1">>,
      filename |-> <<"m", "y", " ", "d", "e", "c", "k">>,
      template_file |-> PyNone,
      outcome |-> [raises |-> FALSE, text |-> SlideJsonLine] ]

GoodTemplate ==
    Pptx(<< <<"TITLE">>, <<"TITLE", "BODY">> >>, <<OldSlide>>)
OneLayoutTemplate == Pptx(<< <<"TITLE">> >>, <<>>)

RequestInputs ==
    { BaseRequest,
      [BaseRequest EXCEPT !.api_key = <<>>],
      [BaseRequest EXCEPT !.outcome = [raises |-> FALSE, text |-> <<"[", "]">>]],
      [BaseRequest EXCEPT !.template_file =
           Upload(<<"t", ".", "p", "p", "t", "x">>, OneLayoutTemplate)],
      [BaseRequest EXCEPT !.filename = <<"t">>,
           !.template_file = Upload(<<"t", ".", "p", "p", "t", "x">>, GoodTemplate)] }

NoResponse == [status |-> 0, path |-> <<>>, sent |-> 0]

RequestInit ==
    /\ request \in [Requests -> RequestInputs]
    /\ rpc = [r \in Requests |-> "start"]
    /\ temp_dir = [r \in Requests |-> 0]
    /\ generated = [r \in Requests |-> PyNone]
    /\ fs = FileSystem({}, {})
    /\ response = [r \in Requests |-> NoResponse]
    /\ background_tasks = [r \in Requests |-> <<>>]
    /\ next_dir = 0
    /\ pc = "serving"
    /\ DeriveOff /\ RenderOff

\* main.py:40, tempfile.mkdtemp(): a directory no other request has
Mkdtemp(r) ==
    /\ rpc[r] = "start"
    /\ next_dir' = next_dir + 1
    /\ temp_dir' = [temp_dir EXCEPT ![r] = next_dir + 1]
    /\ fs' = FileSystem(fs.dirs \cup {next_dir + 1}, fs.files)
    /\ rpc' = [rpc EXCEPT ![r] = "template"]
    /\ UNCHANGED <<request, generated, response, background_tasks>>
    /\ UNCHANGED <<derive_vars, render_vars>>

\* main.py:43-47: the uploaded template is copied into the directory
SaveTemplate(r) ==
    /\ rpc[r] = "template"
    /\ fs' = IF request[r].template_file.t = "none" THEN fs
             ELSE FileSystem(fs.dirs,
                      fs.files \cup {<<temp_dir[r], request[r].template_file.filename>>})
    /\ rpc' = [rpc EXCEPT ![r] = "generate"]
    /\ UNCHANGED <<request, temp_dir, generated, response, background_tasks, next_dir>>
    /\ UNCHANGED <<derive_vars, render_vars>>

\* main.py:50-55: generate_slide_content returns or raises
Generate(r) ==
    /\ rpc[r] = "generate"
    /\ \E g \in {generate_slide_content(request[r].text_content, request[r].guidance,
                     request[r].llm_provider, request[r].api_key, request[r].outcome)} :
          /\ generated' = [generated EXCEPT ![r] = g.val]
          /\ rpc' = [rpc EXCEPT ![r] = IF g.exc = "" THEN "check" ELSE "except"]
    /\ UNCHANGED <<request, temp_dir, fs, response, background_tasks, next_dir>>
    /\ UNCHANGED <<derive_vars, render_vars>>

\* main.py:57-58: if not slide_data: raise ValueError
CheckSlideData(r) ==
    /\ rpc[r] = "check"
    /\ rpc' = [rpc EXCEPT ![r] = IF Truthy(generated[r]) THEN "render" ELSE "except"]
    /\ UNCHANGED <<request, temp_dir, generated, fs, response, background_tasks, next_dir>>
    /\ UNCHANGED <<derive_vars, render_vars>>

\* main.py:61-68: the presentation is written to output_path, or
\* create_ppt_from_template raises
Render(r) ==
    /\ rpc[r] = "render"
    /\ \E d \in {create_ppt_from_template(generated[r],
                     TemplateDocument(request[r].template_file))} :
          /\ fs' = IF d.exc # "" THEN fs
                   ELSE FileSystem(fs.dirs,
                            fs.files \cup {<<temp_dir[r], safe_filename(request[r].filename)>>})
          /\ rpc' = [rpc EXCEPT ![r] = IF d.exc = "" THEN "add_task" ELSE "except"]
    /\ UNCHANGED <<request, temp_dir, generated, response, background_tasks, next_dir>>
    /\ UNCHANGED <<derive_vars, render_vars>>

\* main.py:71: background_tasks.add_task(cleanup_directory, temp_dir)
AddTask(r) ==
    /\ rpc[r] = "add_task"
    /\ background_tasks' = [background_tasks EXCEPT ![r] = Append(@, temp_dir[r])]
    /\ rpc' = [rpc EXCEPT ![r] = "return"]
    /\ UNCHANGED <<request, temp_dir, generated, fs, response, next_dir>>
    /\ UNCHANGED <<derive_vars, render_vars>>

\* main.py:74-78: return FileResponse(path=output_path, ...)
ReturnFileResponse(r) ==
    /\ rpc[r] = "return"
    /\ response' = [response EXCEPT ![r] =
           [status |-> 200, path |-> <<temp_dir[r], safe_filename(request[r].filename)>>,
            sent |-> 0]]
    /\ rpc' = [rpc EXCEPT ![r] = "sending"]
    /\ UNCHANGED <<request, temp_dir, generated, fs, background_tasks, next_dir>>
    /\ UNCHANGED <<derive_vars, render_vars>>

\* main.py:80-82: except Exception: cleanup_directory(temp_dir)
ExceptCleanup(r) ==
    /\ rpc[r] = "except"
    /\ fs' = cleanup_directory(fs, temp_dir[r])
    /\ rpc' = [rpc EXCEPT ![r] = "raise"]
    /\ UNCHANGED <<request, temp_dir, generated, response, background_tasks, next_dir>>
    /\ UNCHANGED <<derive_vars, render_vars>>

\* main.py:86: raise HTTPException(status_code=500, ...)
RaiseHTTPException(r) ==
    /\ rpc[r] = "raise"
    /\ response' = [response EXCEPT ![r] = [status |-> 500, path |-> <<>>, sent |-> 0]]
    /\ rpc' = [rpc EXCEPT ![r] = "failed"]
    /\ UNCHANGED <<request, temp_dir, generated, fs, background_tasks, next_dir>>
    /\ UNCHANGED <<derive_vars, render_vars>>

\* main.py:73-78: the file of the FileResponse is sent piece by piece; a
\* piece of a file that is gone cannot be sent
SendChunk(r) ==
    /\ rpc[r] = "sending"
    /\ response[r].sent < FileChunks
    /\ response' = [response EXCEPT ![r] =
           IF response[r].path \in fs.files THEN [@ EXCEPT !.sent = @ + 1]
           ELSE [@ EXCEPT !.status = 0]]
    /\ rpc' = [rpc EXCEPT ![r] = IF response[r].path \in fs.files THEN "sending" ELSE "broken"]
    /\ UNCHANGED <<request, temp_dir, generated, fs, background_tasks, next_dir>>
    /\ UNCHANGED <<derive_vars, render_vars>>

\* main.py:73-78: the last piece has been sent
SendComplete(r) ==
    /\ rpc[r] = "sending"
    /\ response[r].sent = FileChunks
    /\ rpc' = [rpc EXCEPT ![r] = "sent"]
    /\ UNCHANGED <<request, temp_dir, generated, fs, response, background_tasks, next_dir>>
    /\ UNCHANGED <<derive_vars, render_vars>>

\* main.py:70-71: a task added to background_tasks runs after the response
\* is sent
RunBackgroundTask(r) ==
    /\ rpc[r] = "sent"
    /\ background_tasks[r] # <<>>
    /\ fs' = cleanup_directory(fs, Head(background_tasks[r]))
    /\ background_tasks' = [background_tasks EXCEPT ![r] = Tail(@)]
    /\ UNCHANGED <<request, rpc, temp_dir, generated, response, next_dir>>
    /\ UNCHANGED <<derive_vars, render_vars>>

\* main.py:70-78: no background task is left, the request is over
Finish(r) ==
    /\ rpc[r] = "sent"
    /\ background_tasks[r] = <<>>
    /\ rpc' = [rpc EXCEPT ![r] = "done"]
    /\ UNCHANGED <<request, temp_dir, generated, fs, response, background_tasks, next_dir>>
    /\ UNCHANGED <<derive_vars, render_vars>>

RequestNext ==
    \E r \in Requests :
        \/ Mkdtemp(r)
        \/ SaveTemplate(r)
        \/ Generate(r)
        \/ CheckSlideData(r)
        \/ Render(r)
        \/ AddTask(r)
        \/ ReturnFileResponse(r)
        \/ ExceptCleanup(r)
        \/ RaiseHTTPException(r)
        \/ SendChunk(r)
        \/ SendComplete(r)
        \/ RunBackgroundTask(r)
        \/ Finish(r)

SpecRequest == RequestInit /\ [][RequestNext]_vars

\* C4: every request's temporary directory is removed on every exit path:
\* on the failure path before the 500 response is raised, on the success
\* path only after the response has been sent completely, the output file
\* existing during the whole transmission; no request loses its directory
\* before its response is complete or keeps it after finishing.
C4_DirectoryRemovedOnExit ==
    \A r \in Requests :
        /\ rpc[r] \in {"raise", "failed", "done"} => temp_dir[r] \notin fs.dirs
        /\ rpc[r] \in {"template", "generate", "check", "render", "add_task", "return",
                       "except", "sending"}
               => temp_dir[r] \in fs.dirs
        /\ rpc[r] = "sending" => response[r].path \in fs.files
        /\ (rpc[r] = "sent" /\ background_tasks[r] # <<>>)
               => (temp_dir[r] \in fs.dirs /\ response[r].path \in fs.files)
        /\ rpc[r] = "failed" => response[r].status = 500
        /\ rpc[r] # "broken"

\* C4 witness: one request has failed with 500 and another has sent its
\* whole file and finished
C4_Witness ==
    \E r \in Requests, q \in Requests :
        /\ rpc[r] = "failed" /\ response[r].status = 500
        /\ rpc[q] = "done" /\ response[q].status = 200 /\ response[q].sent = FileChunks
        /\ temp_dir[r] # 0 /\ temp_dir[q] # 0
        /\ fs.dirs = {}

====
